---- MODULE Spec2Model ----
(***************************************************************************)
(* A model of Universal_SMB_Tool.py: the script run (module import, main,  *)
(* run_diagnostics, interactive_mapping), the platform mount functions and *)
(* the credential encryption functions of SMBDiagnosticTool.               *)
(*                                                                         *)
(* Text is a sequence of one-character strings.  Python's None, True and   *)
(* False are the strings "None", "True" and "False" where a variable may   *)
(* hold either.  Every external call (a subprocess, a socket, the file     *)
(* system, the console) is a step whose outcome the environment chooses.   *)
(***************************************************************************)
EXTENDS Integers, Sequences, FiniteSets, TLC

(***************************************************************************)
(* Bounds of the model.                                                    *)
(***************************************************************************)
\* Number of drive letters, counted from Z downwards, whose presence varies
\* freely in the enumerated drive configurations.
MaxVaried == 3
\* Longest username given to the credential functions.
MaxUserLen == 2

(***************************************************************************)
(* Program constants.                                                      *)
(***************************************************************************)
\* range(ord('A'), ord('Z')+1): the drive letters A..Z as 1..26.
NumLetters == 26

None == "None"

Py(b) == IF b THEN "True" ELSE "False"

(***************************************************************************)
(* str.strip() and str.lower() on text.                                    *)
(***************************************************************************)
IsSpace(c) == c \in {" ", "\t"}

RECURSIVE LStrip(_)
LStrip(s) == IF s # <<>> /\ IsSpace(Head(s)) THEN LStrip(Tail(s)) ELSE s

RECURSIVE RStrip(_)
RStrip(s) ==
    IF s # <<>> /\ IsSpace(s[Len(s)]) THEN RStrip(SubSeq(s, 1, Len(s) - 1)) ELSE s

Strip(s) == RStrip(LStrip(s))

LowerChar(c) == CASE c = "Y" -> "y" [] c = "E" -> "e" [] c = "S" -> "s"
                  [] c = "N" -> "n" [] OTHER -> c

Lower(s) == [i \in 1..Len(s) |-> LowerChar(s[i])]

(***************************************************************************)
(* Credential encryption (lines 318-359).                                  *)
(*                                                                         *)
(* The cryptography and base64 libraries are modelled symbolically: a      *)
(* derived key, a ciphertext and a MAC are tuples naming what they were    *)
(* computed from (a perfect KDF, cipher and MAC), and base64 maps each     *)
(* byte to one symbol and pads to a multiple of four symbols.  A byte is   *)
(* an ASCII character or a string "0x..", a base64 symbol is <<"b64", b>>, *)
(* the padding character is <<"pad">> and any other character is           *)
(* <<"raw", c>>.                                                           *)
(***************************************************************************)
NoneText == <<"None">>
NoneToken == << <<"None">> >>

\* salt = b'smb_tool_salt_2024'
Salt == "smb_tool_salt_2024"
Iterations == 100000
KeyLength == 32

\* Exception classes caught by "except Exception" (all but KeyboardInterrupt).
ExceptionClasses == {"AttributeError", "binascii.Error", "InvalidToken",
                     "UnicodeDecodeError", "JSONDecodeError", "KeyError",
                     "TypeError", "UnicodeEncodeError", "OSError", "EOFError",
                     "TimeoutExpired"}

\* The concatenation of parts[1], ..., parts[Len(parts)], each at most K long.
FILL == "FILL"
NotFill(c) == c # FILL

Flat(parts, K) ==
    LET Slot(j) == parts[((j - 1) \div K) + 1]
        padded == [j \in 1..(K * Len(parts)) |->
                     IF ((j - 1) % K) + 1 <= Len(Slot(j))
                     THEN Slot(j)[((j - 1) % K) + 1] ELSE FILL]
    IN SelectSeq(padded, NotFill)

\* str.encode(): UTF-8.
Utf8Char(c) == IF c = "U+00E9" THEN <<"0xC3", "0xA9">> ELSE <<c>>

Utf8Encode(s) == Flat([i \in 1..Len(s) |-> Utf8Char(s[i])], 2)

\* bytes.decode(): <<"ok", text>> or <<"err", exception>>.
Utf8Decode(b) ==
    LET n == Len(b)
        bad == \E i \in 1..n :
                  \/ b[i] = "0xFF"
                  \/ b[i] = "0xC3" /\ (i = n \/ b[i + 1] # "0xA9")
                  \/ b[i] = "0xA9" /\ (i = 1 \/ b[i - 1] # "0xC3")
        chars == [i \in 1..n |-> IF b[i] = "0xC3" THEN "U+00E9"
                                 ELSE IF b[i] = "0xA9" THEN FILL ELSE b[i]]
    IN IF bad THEN <<"err", <<"UnicodeDecodeError", "'utf-8' codec can't decode byte">>>>
       ELSE <<"ok", SelectSeq(chars, NotFill)>>

\* base64.urlsafe_b64encode
Pad == <<"pad">>

B64Padding(n) == [i \in 1..((4 - (n % 4)) % 4) |-> Pad]

urlsafe_b64encode(b) == [i \in 1..Len(b) |-> <<"b64", b[i]>>] \o B64Padding(Len(b))

\* base64.urlsafe_b64decode (validate=False): characters outside the alphabet
\* are discarded before the padding check.  <<"ok", bytes>> or <<"err", exception>>.
IsAlphabet(c) == c[1] \in {"b64", "pad"}

RECURSIVE StripPad(_)
StripPad(t) == IF t # <<>> /\ t[Len(t)] = Pad THEN StripPad(SubSeq(t, 1, Len(t) - 1)) ELSE t

urlsafe_b64decode(t) ==
    LET data == SelectSeq(t, IsAlphabet)
        body == StripPad(data)
    IN IF Len(data) % 4 # 0 \/ \E i \in 1..Len(body) : body[i] = Pad
       THEN <<"err", <<"binascii.Error", "Incorrect padding">>>>
       ELSE <<"ok", [i \in 1..Len(body) |-> body[i][2]]>>

\* PBKDF2HMAC(algorithm=SHA256, length=32, salt, iterations=100000).derive
PBKDF2HMAC(password_bytes) ==
    <<"pbkdf2", "sha256", KeyLength, Salt, Iterations, password_bytes>>

\* Fernet(key): the key is 32 url-safe base64-encoded bytes.
Fernet(key) ==
    LET d == urlsafe_b64decode(key)
    IN IF d[1] = "ok" /\ Len(d[2]) = 1 /\ d[2][1][3] = KeyLength
       THEN <<"fernet", d[2][1]>>
       ELSE <<"ValueError">>

\* Fernet.encrypt: base64 of version, timestamp, IV, ciphertext and HMAC.
FernetEncrypt(cipher, data, iv, ts) ==
    LET k  == cipher[2]
        hd == << <<"ver", "0x80">>, <<"ts", ts>>, <<"iv", iv>>,
                 <<"ct", k, iv, data>> >>
    IN urlsafe_b64encode(hd \o << <<"mac", k, hd>> >>)

\* Fernet.decrypt: <<"ok", plaintext>> or <<"err", InvalidToken>>; str(InvalidToken()) is "".
InvalidToken == <<"err", <<"InvalidToken", "">>>>

FernetDecrypt(cipher, token) ==
    LET k == cipher[2]
        d == urlsafe_b64decode(token)
    IN IF d[1] # "ok" THEN InvalidToken
       ELSE LET b == d[2]
            IN IF Len(b) # 5 THEN InvalidToken
               ELSE IF b[1] # <<"ver", "0x80">> THEN InvalidToken
               ELSE IF b[5] # <<"mac", k, SubSeq(b, 1, 4)>> THEN InvalidToken
               ELSE IF b[4][1] # "ct" \/ b[4][2] # k \/ b[3] # <<"iv", b[4][3]>>
                    THEN InvalidToken
               ELSE <<"ok", b[4][4]>>

(***************************************************************************)
(* json.dumps (ensure_ascii=True, separators ", " and ": ") and json.loads *)
(* for objects whose members are strings.                                  *)
(***************************************************************************)
QUOTE == "\""
BSLASH == "\\"

KeyUsername == <<"u", "s", "e", "r", "n", "a", "m", "e">>
KeyPassword == <<"p", "a", "s", "s", "w", "o", "r", "d">>

EscapeChar(c) ==
    CASE c = QUOTE    -> <<BSLASH, QUOTE>>
      [] c = BSLASH   -> <<BSLASH, BSLASH>>
      [] c = "U+00E9" -> <<BSLASH, "u", "0", "0", "e", "9">>
      [] OTHER        -> <<c>>

EscapeText(s) == Flat([i \in 1..Len(s) |-> EscapeChar(s[i])], 6)

JsonString(s) == <<QUOTE>> \o EscapeText(s) \o <<QUOTE>>

\* members: a sequence of <<key, value>> in insertion order.
RECURSIVE JsonMembers(_)
JsonMembers(m) ==
    IF m = <<>> THEN <<>>
    ELSE JsonString(m[1][1]) \o <<":", " ">> \o JsonString(m[1][2])
         \o (IF Len(m) > 1 THEN <<",", " ">> \o JsonMembers(Tail(m)) ELSE <<>>)

json_dumps(m) == <<"{">> \o JsonMembers(m) \o <<"}">>

RECURSIVE SkipWs(_, _)
SkipWs(s, i) == IF i <= Len(s) /\ s[i] \in {" ", "\t", "\n"} THEN SkipWs(s, i + 1) ELSE i

JsonError(msg) == <<"err", <<"JSONDecodeError", msg>>>>

\* Whether the character at j follows an odd number of backslashes.
BsRun(s, j) == Cardinality({k \in 1..(j - 1) : \A m \in 1..k : s[j - m] = BSLASH})

Escaped(s, j) == BsRun(s, j) % 2 = 1

HEX00E9 == <<"0", "0", "e", "9">>

Min0(S) == IF S = {} THEN 0 ELSE CHOOSE c \in S : \A d \in S : c <= d

\* The closing quote of the string whose first character is at i, or 0.
ClosingQuote(s, i) == Min0({j \in i..Len(s) : s[j] = QUOTE /\ ~Escaped(s, j)})

\* Whether m is one of the four digits of a \u escape.
IsHexDigit(s, i, m) == \E u \in (m - 4)..(m - 1) : u >= i /\ s[u] = "u" /\ Escaped(s, u)

\* What the character at m of a string that ends before j stands for.
UnescapedChar(s, m, j, esc, hex) ==
    IF esc
    THEN IF s[m] \in {QUOTE, BSLASH} THEN s[m]
         ELSE IF s[m] = "u" /\ m + 4 <= j - 1 /\ SubSeq(s, m + 1, m + 4) = HEX00E9
              THEN "U+00E9"
         ELSE "ERR"
    ELSE IF s[m] = BSLASH \/ hex THEN FILL ELSE s[m]

StringBody(s, i, j) ==
    [k \in 1..(j - i) |-> UnescapedChar(s, i + k - 1, j, Escaped(s, i + k - 1),
                                        IsHexDigit(s, i, i + k - 1))]

StringResult(acc, body, next) ==
    IF \E k \in 1..Len(body) : body[k] = "ERR" THEN JsonError("Invalid \\escape")
    ELSE <<"ok", acc \o SelectSeq(body, NotFill), next>>

StringUpTo(s, i, acc, j) ==
    IF j = 0 THEN JsonError("Unterminated string")
    ELSE StringResult(acc, StringBody(s, i, j), j + 1)

\* The string whose opening quote is at i - 1: <<"ok", text, next index>>.
ParseStringBody(s, i, acc) == StringUpTo(s, i, acc, ClosingQuote(s, i))

SetMember(d, k, v) == [x \in DOMAIN d \cup {k} |-> IF x = k THEN v ELSE d[x]]

\* The members of an object after "{" or ",": <<"ok", dict, next index>>.
RECURSIVE ParseMembers(_, _, _)

MemberEnd(s, d, e) ==
    IF e > Len(s) THEN JsonError("Expecting ',' delimiter")
    ELSE IF s[e] = "}" THEN <<"ok", d, e + 1>>
    ELSE IF s[e] = "," THEN ParseMembers(s, e + 1, d)
    ELSE JsonError("Expecting ',' delimiter")

MemberValue(s, d, key, v) ==
    IF v[1] # "ok" THEN v ELSE MemberEnd(s, SetMember(d, key, v[2]), SkipWs(s, v[3]))

MemberValueAt(s, d, key, jv) ==
    IF jv > Len(s) \/ s[jv] # QUOTE THEN JsonError("Expecting value")
    ELSE MemberValue(s, d, key, ParseStringBody(s, jv + 1, <<>>))

MemberColonAt(s, d, key, j) ==
    IF j > Len(s) \/ s[j] # ":" THEN JsonError("Expecting ':' delimiter")
    ELSE MemberValueAt(s, d, key, SkipWs(s, j + 1))

MemberKey(s, d, k) ==
    IF k[1] # "ok" THEN k ELSE MemberColonAt(s, d, k[2], SkipWs(s, k[3]))

MemberAt(s, d, i) ==
    IF i > Len(s) \/ s[i] # QUOTE
    THEN JsonError("Expecting property name enclosed in double quotes")
    ELSE MemberKey(s, d, ParseStringBody(s, i + 1, <<>>))

ParseMembers(s, i0, d) == MemberAt(s, d, SkipWs(s, i0))

EmptyDict == [x \in {} |-> <<>>]

\* r is <<"ok", value, next index>> or an error: the value tagged with its kind.
Tagged(kind, r) == IF r[1] = "ok" THEN <<"ok", <<kind, r[2]>>, r[3]>> ELSE r

ObjectAt(s, i, j) ==
    IF j <= Len(s) /\ s[j] = "}" THEN <<"ok", <<"dict", EmptyDict>>, j + 1>>
    ELSE Tagged("dict", ParseMembers(s, i + 1, EmptyDict))

ArrayAt(s, j) ==
    IF j <= Len(s) /\ s[j] = "]" THEN <<"ok", <<"list", <<>>>>, j + 1>>
    ELSE JsonError("Expecting value")

ValueAt(s, i) ==
    IF i > Len(s) THEN JsonError("Expecting value")
    ELSE IF s[i] = QUOTE THEN Tagged("str", ParseStringBody(s, i + 1, <<>>))
    ELSE IF s[i] = "[" THEN ArrayAt(s, SkipWs(s, i + 1))
    ELSE IF s[i] = "{" THEN ObjectAt(s, i, SkipWs(s, i + 1))
    ELSE JsonError("Expecting value")

\* A value at i0: <<"ok", <<kind, value>>, next index>>, kind "dict", "str" or "list".
ParseValue(s, i0) == ValueAt(s, SkipWs(s, i0))

WholeText(s, r) ==
    IF r[1] # "ok" THEN r
    ELSE IF SkipWs(s, r[3]) <= Len(s) THEN JsonError("Extra data")
    ELSE <<"ok", r[2]>>

\* json.loads: <<"ok", <<kind, value>>>> or <<"err", exception>>.
json_loads(s) == WholeText(s, ParseValue(s, 1))

\* credentials[key]: <<"ok", value>> or <<"err", exception>>.
GetItem(v, key, name) ==
    IF v[1] = "dict"
    THEN IF key \in DOMAIN v[2] THEN <<"ok", v[2][key]>> ELSE <<"err", <<"KeyError", name>>>>
    ELSE <<"err", <<"TypeError", "indices must be integers">>>>

(***************************************************************************)
(* generate_encryption_key, encrypt_credentials, decrypt_credentials.      *)
(***************************************************************************)
generate_encryption_key(password) ==
    LET password_bytes == Utf8Encode(password)
        key == urlsafe_b64encode(<<PBKDF2HMAC(password_bytes)>>)
    IN Fernet(key)

\* rnd is what the library draws for this call: <<"ok", iv, timestamp>>, or
\* <<"err", exception>> when the library call raises.
encrypt_credentials(username, password, encryption_password, rnd) ==
    IF rnd[1] # "ok" THEN NoneToken
    ELSE LET cipher == generate_encryption_key(encryption_password)
             credentials == << <<KeyUsername, username>>, <<KeyPassword, password>> >>
             credentials_json == json_dumps(credentials)
             encrypted_data == FernetEncrypt(cipher, Utf8Encode(credentials_json),
                                             rnd[2], rnd[3])
         IN urlsafe_b64encode(encrypted_data)

\* What a call of decrypt_credentials shows: the returned pair, the printed
\* line (None or the text after "Error decrypting credentials: ") and the
\* exception that left the function (None when none did).
NoPrint == <<"None">>

Returned(u, p) == [ret |-> <<u, p>>, printed |-> NoPrint, escaped |-> "None"]

Handled(exc) ==
    IF exc[1] \in ExceptionClasses
    THEN [ret |-> <<NoneText, NoneText>>, printed |-> <<"Error decrypting credentials", exc[2]>>,
          escaped |-> "None"]
    ELSE [ret |-> <<NoneText, NoneText>>, printed |-> NoPrint, escaped |-> exc[1]]

\* A variant of ReturnItems that returns the two fields in the other order.
ReturnItems_swapped(u, p) ==
    IF u[1] # "ok" THEN Handled(u[2])
    ELSE IF p[1] # "ok" THEN Handled(p[2])
    ELSE Returned(p[2], u[2])

\* Line 356.
ReturnItems(u, p) ==
    IF u[1] # "ok" THEN Handled(u[2])
    ELSE IF p[1] # "ok" THEN Handled(p[2])
    ELSE Returned(u[2], p[2])

\* Line 355 on: credentials = json.loads(...).
WithCredentials(credentials) ==
    IF credentials[1] # "ok" THEN Handled(credentials[2])
    ELSE ReturnItems(GetItem(credentials[2], KeyUsername, "'username'"),
                     GetItem(credentials[2], KeyPassword, "'password'"))

\* Line 355: decrypted_data.decode().
WithText(text) ==
    IF text[1] # "ok" THEN Handled(text[2]) ELSE WithCredentials(json_loads(text[2]))

\* Line 353 on: decrypted_data = cipher.decrypt(encrypted_bytes).
WithDecrypted(decrypted_data) ==
    IF decrypted_data[1] # "ok" THEN Handled(decrypted_data[2])
    ELSE WithText(Utf8Decode(decrypted_data[2]))

\* Line 352 on: encrypted_bytes = base64.urlsafe_b64decode(...).
WithEncryptedBytes(cipher, encrypted_bytes) ==
    IF encrypted_bytes[1] # "ok" THEN Handled(encrypted_bytes[2])
    ELSE WithDecrypted(FernetDecrypt(cipher, encrypted_bytes[2]))

decrypt_credentials(encrypted_data, encryption_password) ==
    IF encrypted_data = NoneToken
    THEN Handled(<<"AttributeError", "'NoneType' object has no attribute 'encode'">>)
    ELSE WithEncryptedBytes(generate_encryption_key(encryption_password),
                            urlsafe_b64decode(encrypted_data))

(***************************************************************************)
(* State.                                                                  *)
(***************************************************************************)
VARIABLES
    pc,                  \* the statement the run is at
    caller,              \* "main" (the script) or "api" (a direct call of a method)
    platform,            \* platform.system().lower() of the host
    cryptoPresent,       \* whether the cryptography package is installed
    os_type, results, encryption_key,      \* the fields of SMBDiagnosticTool
    deps, diag,          \* what check_dependencies and run_diagnostics returned
    server, share, reach, listing,         \* locals of interactive_mapping
    username, password, encryption_password, encrypted_creds, mount_point,
    mountArgs,           \* the arguments mount_smb_share was called with
    success,             \* what mount_smb_share returned
    imResult,            \* what interactive_mapping returned
    used_drives, drive_letter,             \* locals of mount_windows_smb
    dirs,                \* mount point directories created by os.makedirs
    credFile,            \* the credentials file: "none", "exists" or "removed"
    credContent,         \* what was written to it
    pending,             \* what the inner try of mount_linux_smb ended with
    commands,            \* the external commands issued so far
    events,              \* the workflow steps that have been entered
    printed,             \* the messages shown to the operator
    raised,              \* the exception that left the workflow, or "None"
    exitStatus,          \* the exit status of the process, -1 while it runs
    vUser, vPass, vPhrase,                 \* inputs of the credential functions
    token, origin,       \* the token at hand and how it was obtained
    obs1, obs2           \* what the first and second decrypt call showed

toolVars == <<os_type, results, encryption_key>>
diagVars == <<deps, diag>>
imVars == <<server, share, reach, listing, username, password, encryption_password,
            encrypted_creds, mount_point, imResult>>
mountVars == <<mountArgs, success, used_drives, drive_letter, dirs, credFile,
               credContent, pending, commands>>
vaultVars == <<vUser, vPass, vPhrase, token, origin, obs1, obs2>>
envVars == <<caller, platform, cryptoPresent>>
vars == <<pc, envVars, toolVars, diagVars, imVars, mountVars, events, printed,
          raised, exitStatus, vaultVars>>

(***************************************************************************)
(* What the environment may answer.                                        *)
(***************************************************************************)
Platforms == {"windows", "darwin", "linux", "freebsd"}
Supported == {"windows", "darwin", "linux"}

\* The end of a 'sc query' run: exit code 0 with RUNNING in the output, exit
\* code 0 without, a non-zero exit code, or an exception (a timeout).
ScOutcomes == {"rc0_RUNNING", "rc0", "rc1", "raise"}
WindowsServices == <<"LanmanServer", "LanmanWorkstation">>
LinuxTools == <<"smbclient", "mount.cifs", "smbmount">>
WhichOutcomes == {"rc0", "rc1", "raise"}
\* The end of a command whose exit code alone is read.
RunOutcomes == {"rc0", "rc1", "raise"}

Probes(os) ==
    CASE os = "windows" -> [1..2 -> ScOutcomes]
      [] os = "darwin"  -> [1..1 -> WhichOutcomes]
      [] os = "linux"   -> [1..3 -> {"rc0", "rc1"}] \cup {[i \in 1..3 |-> "raise"]}
      [] OTHER          -> {<<>>}

EOF == <<"EOF">>
ResponseLines == {<<"y">>, <<"Y", "E", "S">>, <<" ", "y", " ">>, <<"n">>, <<>>}
ServerLines == {<<>>, <<" ">>, <<"h">>}
ShareLines == {<<>>, <<"d", " ">>}
UsernameLines == {<<>>, <<" ">>, <<"a">>, <<"U+00E9">>}
PasswordLines == {<<>>, <<"p">>}
PassphraseLines == {<<>>, <<"k">>}
MountPointLines == {<<>>, <<"/", "m">>}

EmptyResults == [x \in {} |-> <<>>]
NoArgs == <<"None">>

(***************************************************************************)
(* check_smb_tools and the platform checks (lines 60-197): the value        *)
(* returned and the new self.results, given what the commands answered.    *)
(***************************************************************************)
ServiceStatus(o) ==
    CASE o = "rc0_RUNNING" -> "Running"
      [] o = "rc0"         -> "Stopped"
      [] o = "rc1"         -> "Not found"
      [] OTHER             -> "Error"

check_windows_smb(res, probe) ==
    LET service_status == [i \in 1..2 |-> ServiceStatus(probe[i])]
    IN [ret |-> \E i \in 1..2 : service_status[i] = "Running",
        results |-> SetMember(res, "windows_services", service_status),
        cmds |-> {<<"sc", "query", WindowsServices[i]>> : i \in 1..2}
                   \cup {<<"powershell", "Get-WindowsOptionalFeature">>}]

check_macos_smb(res, probe) ==
    LET smb_available == probe[1] = "rc0"
    IN [ret |-> smb_available,
        results |-> SetMember(res, "macos_smb", <<"smbutil_available", Py(smb_available)>>),
        cmds |-> {<<"which", "smbutil">>, <<"launchctl", "list">>}]

IsFound(o) == o = "rc0"

check_linux_smb(res, probe) ==
    LET found == {i \in 1..3 : IsFound(probe[i])}
        available_tools == SelectSeq([i \in 1..3 |-> IF i \in found THEN LinuxTools[i] ELSE FILL],
                                     NotFill)
    IN [ret |-> Len(available_tools) > 0,
        results |-> SetMember(res, "linux_smb", available_tools),
        cmds |-> {<<"which", LinuxTools[i]>> : i \in 1..3}]

check_smb_tools(os, res, probe) ==
    CASE os = "windows" -> check_windows_smb(res, probe)
      [] os = "darwin"  -> check_macos_smb(res, probe)
      [] os = "linux"   -> check_linux_smb(res, probe)
      [] OTHER          -> [ret |-> FALSE, results |-> res, cmds |-> {}]

(***************************************************************************)
(* The script: module import, main and run_diagnostics.                    *)
(***************************************************************************)
\* Where an exception that leaves the workflow lands: the handlers of main
\* (lines 588-592), or the caller of a method called directly.
HandlerOf(exc) ==
    IF caller = "main"
    THEN IF exc = "KeyboardInterrupt" THEN "except_KeyboardInterrupt" ELSE "except_Exception"
    ELSE "api_done"

\* Lines 7-19: the imports run before main is entered; line 14 raises when the
\* cryptography package is absent, and the interpreter prints the traceback
\* and exits with status 1.
ModuleImport ==
    /\ pc = "import"
    /\ IF cryptoPresent
       THEN /\ pc' = "main"
            /\ UNCHANGED <<printed, exitStatus>>
       ELSE /\ pc' = "exited"
            /\ printed' = printed \cup {"traceback"}
            /\ exitStatus' = 1
    /\ UNCHANGED <<envVars, toolVars, diagVars, imVars, mountVars, events, raised, vaultVars>>

\* Line 575 (and 22-25): tool = SMBDiagnosticTool().
Construct ==
    /\ pc = "main"
    /\ os_type' = platform
    /\ results' = EmptyResults
    /\ encryption_key' = "None"
    /\ pc' = "run_diagnostics"
    /\ UNCHANGED <<envVars, diagVars, imVars, mountVars, events, printed, raised,
                   exitStatus, vaultVars>>

\* A variant of check_dependencies that forgets the system SMB tools.
check_dependencies_crypto_only(crypto, smb_tools) == crypto

\* check_dependencies (lines 38-58): "import cryptography" succeeds exactly
\* when the package is installed.
check_dependencies(crypto, smb_tools) == crypto /\ smb_tools

\* Lines 488-497: print_header, check_dependencies, and the return on failure.
RunDiagnostics_Dependencies ==
    /\ pc = "run_diagnostics"
    /\ \E probe \in Probes(os_type) :
          LET r  == check_smb_tools(os_type, results, probe)
              ok == check_dependencies(cryptoPresent, r.ret)
          IN /\ results' = r.results
             /\ commands' = commands \cup r.cmds
             /\ deps' = Py(ok)
             /\ IF ok
                THEN /\ pc' = "rd_smb_tools"
                     /\ UNCHANGED <<diag, printed>>
                ELSE /\ diag' = "False"
                     /\ printed' = printed \cup {"critical_dependencies_missing"}
                     /\ pc' = "main_after_diag"
    /\ events' = events \cup {"capability_check"}
    /\ UNCHANGED <<envVars, os_type, encryption_key, imVars, mountArgs, success,
                   used_drives, drive_letter, dirs, credFile, credContent, pending,
                   raised, exitStatus, vaultVars>>

\* Lines 499-508: the second check_smb_tools and the result.
RunDiagnostics_Tools ==
    /\ pc = "rd_smb_tools"
    /\ \E probe \in Probes(os_type) :
          LET r == check_smb_tools(os_type, results, probe)
              smb_ready == r.ret
          IN /\ results' = r.results
             /\ commands' = commands \cup r.cmds
             /\ diag' = Py(smb_ready)
             /\ printed' = printed \cup {IF smb_ready THEN "all_checks_passed"
                                         ELSE "smb_not_configured"}
    /\ pc' = "main_after_diag"
    /\ UNCHANGED <<envVars, os_type, encryption_key, deps, imVars, mountArgs, success,
                   used_drives, drive_letter, dirs, credFile, credContent, pending,
                   events, raised, exitStatus, vaultVars>>

\* response in ['y', 'yes'] (line 581).
WantsMapping(line) == Lower(Strip(line)) \in {<<"y">>, <<"y", "e", "s">>}

\* Lines 578-582: the branch on run_diagnostics() and the prompt.
Main_AfterDiagnostics ==
    /\ pc = "main_after_diag"
    /\ IF diag = "True"
       THEN \E line \in ResponseLines \cup {EOF} :
               /\ events' = events \cup {"map_prompt"}
               /\ IF line = EOF
                  THEN /\ raised' = "EOFError"
                       /\ pc' = HandlerOf("EOFError")
                  ELSE /\ raised' = raised
                       /\ pc' = IF WantsMapping(line) THEN "interactive_mapping"
                                ELSE "main_banner"
       ELSE /\ pc' = "main_banner"
            /\ UNCHANGED <<events, raised>>
    /\ UNCHANGED <<envVars, toolVars, diagVars, imVars, mountVars, printed, exitStatus,
                   vaultVars>>

\* Lines 584-586: the closing banner; main returns and the process exits 0.
Main_Banner ==
    /\ pc = "main_banner"
    /\ printed' = printed \cup {"completed"}
    /\ exitStatus' = 0
    /\ pc' = "exited"
    /\ UNCHANGED <<envVars, toolVars, diagVars, imVars, mountVars, events, raised, vaultVars>>

\* The exit status each handler of main ends the process with (lines 588-592).
HandlerExit(handler) == IF handler = "except_Exception" THEN 1 ELSE 0

\* Lines 588-589.
Main_ExceptKeyboardInterrupt ==
    /\ pc = "except_KeyboardInterrupt"
    /\ printed' = printed \cup {"cancelled"}
    /\ exitStatus' = HandlerExit(pc)
    /\ pc' = "exited"
    /\ UNCHANGED <<envVars, toolVars, diagVars, imVars, mountVars, events, raised, vaultVars>>

\* Lines 590-592.
Main_ExceptException ==
    /\ pc = "except_Exception"
    /\ printed' = printed \cup {"unexpected_error"}
    /\ exitStatus' = HandlerExit(pc)
    /\ pc' = "exited"
    /\ UNCHANGED <<envVars, toolVars, diagVars, imVars, mountVars, events, raised, vaultVars>>

(***************************************************************************)
(* interactive_mapping (lines 510-570).                                    *)
(***************************************************************************)
IVs == {1, 2}
Timestamps == {1, 2}
RndOutcomes == {<<"ok", iv, ts>> : iv \in IVs, ts \in Timestamps}
                  \cup {<<"err", <<"OSError", "urandom">>>>}

\* connect_ex returned 0, returned an errno, or the lookup or the socket raised.
ConnectOutcomes == {"0", "errno", "gaierror", "raise"}

\* test_network_connectivity (lines 199-220).
test_network_connectivity(o) == o = "0"

\* test_smb_connection (lines 222-316): the listing command of the platform.
ListingCommand(os, host) ==
    CASE os = "windows" -> {<<"net", "view", host>>}
      [] os = "darwin"  -> {<<"smbutil", "view", host>>}
      [] os = "linux"   -> {<<"smbclient", "-L", host, "-N">>}
      [] OTHER          -> {}

test_smb_connection(os, o) == os \in Supported /\ o = "rc0"

\* Variants of the two branches below: one goes on after a failed reachability
\* check, the other gives up after a failed share listing.
AfterReachability_proceeding(reachable) == "im_listing"

AfterListing_fatal(listed) == IF listed THEN "im_username" ELSE "return_False"

\* Where interactive_mapping goes after the reachability check (lines 528-530)
\* and after the share listing (lines 533-534).
AfterReachability(reachable) == IF reachable THEN "im_listing" ELSE "return_False"

AfterListing(listed) == "im_username"

\* A variant of Truthy that takes any value of encrypted_creds for a token.
Truthy_always(tok) == TRUE

\* if encrypted_creds: (line 548)
Truthy(tok) == tok # NoneToken /\ tok # <<>>

\* Lines 516-520.
IM_Server ==
    /\ pc = "interactive_mapping"
    /\ events' = events \cup {"server_prompt"}
    /\ \E line \in ServerLines \cup {EOF} :
          IF line = EOF
          THEN /\ raised' = "EOFError"
               /\ pc' = HandlerOf("EOFError")
               /\ UNCHANGED <<server, imResult, printed>>
          ELSE /\ server' = Strip(line)
               /\ raised' = raised
               /\ IF server' = <<>>
                  THEN /\ printed' = printed \cup {"server_required"}
                       /\ imResult' = "False"
                       /\ pc' = "main_banner"
                  ELSE /\ pc' = "im_share"
                       /\ UNCHANGED <<imResult, printed>>
    /\ UNCHANGED <<envVars, toolVars, diagVars, share, reach, listing, username, password,
                   encryption_password, encrypted_creds, mount_point, mountVars,
                   exitStatus, vaultVars>>

\* Lines 522-525.
IM_Share ==
    /\ pc = "im_share"
    /\ \E line \in ShareLines \cup {EOF} :
          IF line = EOF
          THEN /\ raised' = "EOFError"
               /\ pc' = HandlerOf("EOFError")
               /\ UNCHANGED <<share, imResult, printed>>
          ELSE /\ share' = Strip(line)
               /\ raised' = raised
               /\ IF share' = <<>>
                  THEN /\ printed' = printed \cup {"share_required"}
                       /\ imResult' = "False"
                       /\ pc' = "main_banner"
                  ELSE /\ pc' = "im_reach"
                       /\ UNCHANGED <<imResult, printed>>
    /\ UNCHANGED <<envVars, toolVars, diagVars, server, reach, listing, username, password,
                   encryption_password, encrypted_creds, mount_point, mountVars, events,
                   exitStatus, vaultVars>>

\* Lines 527-530.
IM_Reachability ==
    /\ pc = "im_reach"
    /\ events' = events \cup {"reachability"}
    /\ \E o \in ConnectOutcomes :
          LET ok == test_network_connectivity(o)
              to == AfterReachability(ok)
          IN /\ reach' = Py(ok)
             /\ IF to = "return_False"
                THEN /\ printed' = printed \cup {"cannot_reach_server"}
                     /\ imResult' = "False"
                     /\ pc' = "main_banner"
                ELSE /\ pc' = to
                     /\ UNCHANGED <<imResult, printed>>
    /\ UNCHANGED <<envVars, toolVars, diagVars, server, share, listing, username, password,
                   encryption_password, encrypted_creds, mount_point, mountVars, raised,
                   exitStatus, vaultVars>>

\* Lines 532-534.
IM_Listing ==
    /\ pc = "im_listing"
    /\ events' = events \cup {"listing"}
    /\ commands' = commands \cup ListingCommand(os_type, server)
    /\ \E o \in RunOutcomes :
          LET ok == test_smb_connection(os_type, o)
              to == AfterListing(ok)
          IN /\ listing' = Py(ok)
             /\ IF to = "return_False"
                THEN /\ printed' = printed \cup {"smb_test_failed"}
                     /\ imResult' = "False"
                     /\ pc' = "main_banner"
                ELSE /\ printed' = IF ok THEN printed
                                   ELSE printed \cup {"smb_test_failed_proceeding"}
                     /\ imResult' = imResult
                     /\ pc' = to
    /\ UNCHANGED <<envVars, toolVars, diagVars, server, share, reach, username, password,
                   encryption_password, encrypted_creds, mount_point, mountArgs, success,
                   used_drives, drive_letter, dirs, credFile, credContent, pending,
                   raised, exitStatus, vaultVars>>

\* Lines 536-540 and 554-556.
IM_Username ==
    /\ pc = "im_username"
    /\ events' = events \cup {"cred_prompt"}
    /\ \E line \in UsernameLines \cup {EOF} :
          IF line = EOF
          THEN /\ raised' = "EOFError"
               /\ pc' = HandlerOf("EOFError")
               /\ UNCHANGED <<username, password, encryption_password>>
          ELSE /\ username' = Strip(line)
               /\ raised' = raised
               /\ IF username' # <<>>
                  THEN /\ pc' = "im_password"
                       /\ UNCHANGED <<password, encryption_password>>
                  ELSE /\ password' = <<>>
                       /\ encryption_password' = <<>>
                       /\ pc' = "im_mount_point"
    /\ UNCHANGED <<envVars, toolVars, diagVars, server, share, reach, listing,
                   encrypted_creds, mount_point, imResult, mountVars, printed,
                   exitStatus, vaultVars>>

\* Line 541.
IM_Password ==
    /\ pc = "im_password"
    /\ \E line \in PasswordLines \cup {EOF} :
          IF line = EOF
          THEN /\ raised' = "EOFError"
               /\ pc' = HandlerOf("EOFError")
               /\ UNCHANGED password
          ELSE /\ password' = line
               /\ raised' = raised
               /\ pc' = "im_passphrase"
    /\ UNCHANGED <<envVars, toolVars, diagVars, server, share, reach, listing, username,
                   encryption_password, encrypted_creds, mount_point, imResult, mountVars,
                   events, printed, exitStatus, vaultVars>>

\* Lines 543-545.
IM_Passphrase ==
    /\ pc = "im_passphrase"
    /\ \E line \in PassphraseLines \cup {EOF} :
          IF line = EOF
          THEN /\ raised' = "EOFError"
               /\ pc' = HandlerOf("EOFError")
               /\ UNCHANGED encryption_password
          ELSE /\ encryption_password' = line
               /\ raised' = raised
               /\ pc' = "im_encrypt"
    /\ UNCHANGED <<envVars, toolVars, diagVars, server, share, reach, listing, username,
                   password, encrypted_creds, mount_point, imResult, mountVars,
                   events, printed, exitStatus, vaultVars>>

\* Lines 547-553.
IM_Encrypt ==
    /\ pc = "im_encrypt"
    /\ events' = events \cup {"encrypt"}
    /\ \E rnd \in RndOutcomes :
          /\ encrypted_creds' = encrypt_credentials(username, password,
                                                    encryption_password, rnd)
          /\ IF Truthy(encrypted_creds')
             THEN /\ printed' = printed \cup {"credentials_encrypted"}
                  /\ pc' = "im_mount_point"
                  /\ UNCHANGED imResult
             ELSE /\ printed' = printed \cup {"error_encrypting", "failed_to_encrypt"}
                  /\ imResult' = "False"
                  /\ pc' = "main_banner"
    /\ UNCHANGED <<envVars, toolVars, diagVars, server, share, reach, listing, username,
                   password, encryption_password, mount_point, mountVars, raised,
                   exitStatus, vaultVars>>

\* A variant of MountCallArgs that hands the encryption password to the mount
\* in place of the share password.
MountCallArgs_passphrase(sv, sh, u, p, phrase, mp) == <<sv, sh, u, phrase, mp>>

\* Line 563: the arguments of self.mount_smb_share(...), chosen among the
\* locals of interactive_mapping.
MountCallArgs(sv, sh, u, p, phrase, mp) == <<sv, sh, u, p, mp>>

\* Lines 558-563: the mount point prompt and the call of mount_smb_share.
IM_MountPoint ==
    /\ pc = "im_mount_point"
    /\ IF os_type \in {"darwin", "linux"}
       THEN \E line \in MountPointLines \cup {EOF} :
               IF line = EOF
               THEN /\ raised' = "EOFError"
                    /\ pc' = HandlerOf("EOFError")
                    /\ UNCHANGED <<mount_point, mountArgs>>
               ELSE /\ mount_point' = Strip(line)
                    /\ mountArgs' = MountCallArgs(server, share, username, password,
                                                  encryption_password, mount_point')
                    /\ raised' = raised
                    /\ pc' = "mount_smb_share"
       ELSE /\ mount_point' = NoneText
            /\ mountArgs' = MountCallArgs(server, share, username, password,
                                          encryption_password, mount_point')
            /\ raised' = raised
            /\ pc' = "mount_smb_share"
    /\ UNCHANGED <<envVars, toolVars, diagVars, server, share, reach, listing, username,
                   password, encryption_password, encrypted_creds, imResult, success,
                   used_drives, drive_letter, dirs, credFile, credContent, pending,
                   commands, events, printed, exitStatus, vaultVars>>

\* Lines 565-570.
IM_AfterMount ==
    /\ pc = "im_after_mount"
    /\ printed' = printed \cup {IF success = "True" THEN "configured" ELSE "failed_to_configure"}
    /\ imResult' = success
    /\ pc' = "main_banner"
    /\ UNCHANGED <<envVars, toolVars, diagVars, server, share, reach, listing, username,
                   password, encryption_password, encrypted_creds, mount_point, mountVars,
                   events, raised, exitStatus, vaultVars>>

(***************************************************************************)
(* mount_smb_share and the platform mounts (lines 361-486).                *)
(***************************************************************************)
\* A variant of mount_smb_share_target that treats every other platform as Linux.
mount_smb_share_target_else_linux(os) ==
    CASE os = "windows" -> "mount_windows_smb"
      [] os = "darwin"  -> "mount_macos_smb"
      [] OTHER          -> "mount_linux_smb"

\* Where mount_smb_share hands the call (lines 365-372).
mount_smb_share_target(os) ==
    CASE os = "windows" -> "mount_windows_smb"
      [] os = "darwin"  -> "mount_macos_smb"
      [] os = "linux"   -> "mount_linux_smb"
      [] OTHER          -> "return_False"

\* Where a mount function returns to.
MountReturnPc == IF caller = "main" THEN "im_after_mount" ELSE "api_done"

mount_smb_share ==
    /\ pc = "mount_smb_share"
    /\ events' = events \cup {"mount"}
    /\ printed' = printed \cup {"attempting_to_mount"}
    /\ LET to == mount_smb_share_target(os_type)
       IN IF to = "return_False"
          THEN /\ success' = "False"
               /\ pc' = MountReturnPc
          ELSE /\ pc' = to
               /\ UNCHANGED success
    /\ UNCHANGED <<envVars, toolVars, diagVars, imVars, mountArgs, used_drives,
                   drive_letter, dirs, credFile, credContent, pending, commands,
                   raised, exitStatus, vaultVars>>

\* The drive letters A..Z are 1..26.  The enumerated sets of letters whose
\* root path exists: any subset of the last MaxVaried letters, together with
\* none, only C:, or all of the letters before them.
Letters == 1..NumLetters
Varied == {d \in Letters : d > NumLetters - MaxVaried}
DriveSets == {t \cup l : t \in SUBSET Varied, l \in {{}, {3} \ Varied, Letters \ Varied}}

\* Lines 378-382: the letters in use, and the free letters from Z down to A.
used_drives_of(existing) == {d \in Letters : d \in existing}

\* A variant of available_drives that scans from A up to Z.
available_drives_ascending(used) ==
    LET Free(d) == d \notin used
    IN SelectSeq([i \in 1..NumLetters |-> i], Free)

available_drives(used) ==
    LET Free(d) == d \notin used
    IN SelectSeq([i \in 1..NumLetters |-> NumLetters + 1 - i], Free)

\* Lines 376-389.
Win_Scan ==
    /\ pc = "mount_windows_smb"
    /\ \E existing \in DriveSets :
          /\ used_drives' = used_drives_of(existing)
          /\ LET avail == available_drives(used_drives')
             IN IF avail = <<>>
                THEN /\ printed' = printed \cup {"no_available_drive_letters"}
                     /\ success' = "False"
                     /\ pc' = MountReturnPc
                     /\ UNCHANGED drive_letter
                ELSE /\ drive_letter' = avail[1]
                     /\ pc' = "win_net_use"
                     /\ UNCHANGED <<printed, success>>
    /\ UNCHANGED <<envVars, toolVars, diagVars, imVars, mountArgs, dirs, credFile,
                   credContent, pending, commands, events, raised, exitStatus, vaultVars>>

\* Lines 391-394: the net use command.
NetUseCommand(drive, args) ==
    <<"net", "use", drive, <<args[1], args[2]>>>>
        \o (IF args[3] # <<>> THEN <<<<"/user:", args[3]>>, args[4]>> ELSE <<>>)

\* Lines 396-408.
Win_NetUse ==
    /\ pc = "win_net_use"
    /\ commands' = commands \cup {NetUseCommand(drive_letter, mountArgs)}
    /\ \E o \in RunOutcomes :
          /\ success' = Py(o = "rc0")
          /\ printed' = printed \cup {CASE o = "rc0" -> "mapped"
                                        [] o = "rc1" -> "failed_to_map_drive"
                                        [] OTHER -> "error_mounting"}
    /\ pc' = MountReturnPc
    /\ UNCHANGED <<envVars, toolVars, diagVars, imVars, mountArgs, used_drives,
                   drive_letter, dirs, credFile, credContent, pending, events, raised,
                   exitStatus, vaultVars>>

\* if not mount_point: mount_point = default (lines 413-414, 446-447).
MountPointOr(mp, root, sh) == IF mp = <<>> \/ mp = NoneText THEN <<root>> \o sh ELSE mp

\* Lines 412-417 and 445-450: os.makedirs(mount_point, exist_ok=True).
Mac_Makedirs ==
    /\ pc = "mount_macos_smb"
    /\ \E o \in {"ok", "raise"} :
          IF o = "ok"
          THEN /\ dirs' = dirs \cup {MountPointOr(mountArgs[5], "/Volumes/", mountArgs[2])}
               /\ pc' = "mac_mount"
               /\ UNCHANGED <<success, printed>>
          ELSE /\ printed' = printed \cup {"error_mounting"}
               /\ success' = "False"
               /\ pc' = MountReturnPc
               /\ UNCHANGED dirs
    /\ UNCHANGED <<envVars, toolVars, diagVars, imVars, mountArgs, used_drives,
                   drive_letter, credFile, credContent, pending, commands, events, raised,
                   exitStatus, vaultVars>>

\* Lines 419-423: the URL carries the credentials when both are non-empty.
SmbUrl(args) ==
    IF args[3] # <<>> /\ args[4] # <<>>
    THEN <<"smb://", args[3], args[4], args[1], args[2]>>
    ELSE <<"smb://", args[1], args[2]>>

\* Lines 425-441.
Mac_Mount ==
    /\ pc = "mac_mount"
    /\ commands' = commands \cup {<<"mount", "-t", "smbfs", SmbUrl(mountArgs),
                                    MountPointOr(mountArgs[5], "/Volumes/", mountArgs[2])>>}
    /\ \E o \in RunOutcomes :
          /\ success' = Py(o = "rc0")
          /\ printed' = printed \cup {CASE o = "rc0" -> "mounted"
                                        [] o = "rc1" -> "failed_to_mount"
                                        [] OTHER -> "error_mounting"}
    /\ pc' = MountReturnPc
    /\ UNCHANGED <<envVars, toolVars, diagVars, imVars, mountArgs, used_drives,
                   drive_letter, dirs, credFile, credContent, pending, events, raised,
                   exitStatus, vaultVars>>

Lin_Makedirs ==
    /\ pc = "mount_linux_smb"
    /\ \E o \in {"ok", "raise"} :
          IF o = "ok"
          THEN /\ dirs' = dirs \cup {MountPointOr(mountArgs[5], "/mnt/", mountArgs[2])}
               /\ pc' = "lin_cred"
               /\ UNCHANGED <<success, printed>>
          ELSE /\ printed' = printed \cup {"error_mounting"}
               /\ success' = "False"
               /\ pc' = MountReturnPc
               /\ UNCHANGED dirs
    /\ UNCHANGED <<envVars, toolVars, diagVars, imVars, mountArgs, used_drives,
                   drive_letter, credFile, credContent, pending, commands, events, raised,
                   exitStatus, vaultVars>>

\* Lines 452-457: NamedTemporaryFile(delete=False) creates the file, the with
\* block writes and closes it.  The inner try (line 459) is not entered yet:
\* an exception here goes to line 484 with the file, once created, left on disk.
WriteOutcomes == {"ok", "create_raises", "write_raises"}

Lin_WriteCredentials ==
    /\ pc = "lin_cred"
    /\ \E o \in WriteOutcomes :
          /\ credFile' = IF o = "create_raises" THEN credFile ELSE "exists"
          /\ credContent' = IF o = "ok" THEN <<mountArgs[3], mountArgs[4]>> ELSE credContent
          /\ IF o = "ok"
             THEN /\ pc' = "lin_mount"
                  /\ UNCHANGED <<success, printed>>
             ELSE /\ printed' = printed \cup {"error_mounting"}
                  /\ success' = "False"
                  /\ pc' = MountReturnPc
    /\ UNCHANGED <<envVars, toolVars, diagVars, imVars, mountArgs, used_drives,
                   drive_letter, dirs, pending, commands, events, raised, exitStatus,
                   vaultVars>>

\* Lines 459-475: the mount command inside the inner try.
Lin_Mount ==
    /\ pc = "lin_mount"
    /\ commands' = commands \cup {<<"sudo", "mount", "-t", "cifs", <<mountArgs[1], mountArgs[2]>>,
                                    MountPointOr(mountArgs[5], "/mnt/", mountArgs[2])>>}
    /\ \E o \in RunOutcomes :
          /\ pending' = CASE o = "rc0" -> "return_True"
                          [] o = "rc1" -> "return_False"
                          [] OTHER -> "raise_Exception"
          /\ printed' = IF o = "raise" THEN printed
                        ELSE printed \cup {IF o = "rc0" THEN "mounted" ELSE "failed_to_mount"}
    /\ pc' = "lin_unlink"
    /\ UNCHANGED <<envVars, toolVars, diagVars, imVars, mountArgs, success, used_drives,
                   drive_letter, dirs, credFile, credContent, events, raised, exitStatus,
                   vaultVars>>

\* Lines 477-486: the finally block.  os.unlink removes the file, or raises
\* and the bare except swallows whatever it raised; then the function returns
\* what the inner try returned, line 484 turns an Exception into False, and a
\* KeyboardInterrupt goes on to the caller.
UnlinkOutcomes == {"ok", "raise"}

Lin_Unlink ==
    /\ pc = "lin_unlink"
    /\ \E o \in UnlinkOutcomes :
          credFile' = IF o = "ok" THEN "removed" ELSE credFile
    /\ IF pending = "raise_KeyboardInterrupt"
       THEN /\ raised' = "KeyboardInterrupt"
            /\ pc' = HandlerOf("KeyboardInterrupt")
            /\ UNCHANGED <<success, printed>>
       ELSE /\ success' = Py(pending = "return_True")
            /\ printed' = IF pending = "raise_Exception"
                          THEN printed \cup {"error_mounting"} ELSE printed
            /\ pc' = MountReturnPc
            /\ raised' = raised
    /\ pending' = "None"
    /\ UNCHANGED <<envVars, toolVars, diagVars, imVars, mountArgs, used_drives,
                   drive_letter, dirs, credContent, commands, events, exitStatus, vaultVars>>

(***************************************************************************)
(* The operator's interrupt (Ctrl-C): a KeyboardInterrupt raised at the    *)
(* statement the run is at.  No "except Exception" catches it.  Inside the *)
(* inner try of mount_linux_smb the finally block runs first; while the    *)
(* credentials file is being written, the file may already exist.          *)
(***************************************************************************)
WorkflowPcs == {"main", "run_diagnostics", "rd_smb_tools", "main_after_diag",
                "interactive_mapping", "im_share", "im_reach", "im_listing",
                "im_username", "im_password", "im_passphrase", "im_encrypt",
                "im_mount_point", "im_after_mount", "main_banner"}
MountPcs == {"mount_smb_share", "mount_windows_smb", "win_net_use", "mount_macos_smb",
             "mac_mount", "mount_linux_smb", "lin_cred", "lin_mount", "lin_unlink"}

Interrupt ==
    /\ pc \in WorkflowPcs \cup MountPcs
    /\ IF pc = "lin_mount"
       THEN /\ pending' = "raise_KeyboardInterrupt"
            /\ pc' = "lin_unlink"
            /\ UNCHANGED <<raised, credFile>>
       ELSE /\ raised' = "KeyboardInterrupt"
            /\ pc' = HandlerOf("KeyboardInterrupt")
            /\ pending' = pending
            /\ IF pc = "lin_cred"
               THEN \E created \in BOOLEAN : credFile' = IF created THEN "exists" ELSE credFile
               ELSE UNCHANGED credFile
    /\ UNCHANGED <<envVars, toolVars, diagVars, imVars, mountArgs, success, used_drives,
                   drive_letter, dirs, credContent, commands, events, printed, exitStatus,
                   vaultVars>>

(***************************************************************************)
(* Direct calls of the credential functions: a token is made by            *)
(* encrypt_credentials, or by another holder of the passphrase, may be     *)
(* damaged, and is given to decrypt_credentials twice.                     *)
(***************************************************************************)
UserChars == {"a", QUOTE, "U+00E9"}
Usernames == UNION {[1..n -> UserChars] : n \in 1..MaxUserLen}
Passwords == {<<"p">>, <<BSLASH, QUOTE>>, <<"U+00E9", " ">>}
Passphrases == {<<"k">>, <<"U+00E9">>, <<"k", "k">>}

\* Payloads another holder of the passphrase may have encrypted.
ForeignPayloads(u, p) ==
    {<<"no_password", Utf8Encode(json_dumps(<< <<KeyUsername, u>> >>))>>,
     <<"no_username", Utf8Encode(json_dumps(<< <<KeyPassword, p>> >>))>>,
     <<"no_fields", <<"{", "}">>>>,
     <<"not_an_object", <<"[", "]">>>>,
     <<"not_json", <<"n", "o">>>>,
     <<"not_utf8", <<"0xFF">>>>}

TamperKinds == {"truncated_by_1", "truncated_by_4", "corrupted", "stray_character",
                "not_base64"}

Garbage == << <<"raw", "!">>, <<"b64", "n">>, <<"b64", "o">>, <<"raw", " ">>, <<"b64", "t">> >>

Tamper(kind, t) ==
    CASE kind = "truncated_by_1"  -> SubSeq(t, 1, Len(t) - 1)
      [] kind = "truncated_by_4"  -> SubSeq(t, 1, Len(t) - 4)
      [] kind = "corrupted"       -> [t EXCEPT ![2] = <<"b64", <<"b64", <<"ts", 0>>>>>>]
      [] kind = "stray_character" -> SubSeq(t, 1, 2) \o << <<"raw", "!">> >> \o SubSeq(t, 3, Len(t))
      [] OTHER                    -> Garbage

\* Why a decrypt call is expected to fail, from how its input was obtained.
CauseOf(org, phrase, p2) ==
    IF org = "encrypt" THEN (IF p2 = phrase THEN "valid" ELSE "wrong_passphrase")
    ELSE IF p2 = phrase THEN org ELSE "damaged_and_wrong_passphrase"

NoObs == [cause |-> "none", phrase |-> <<>>, out |-> Returned(NoneText, NoneText)]

V_Encrypt ==
    /\ pc = "v_start"
    /\ \E iv \in IVs, ts \in Timestamps :
          token' = encrypt_credentials(vUser, vPass, vPhrase, <<"ok", iv, ts>>)
    /\ origin' = "encrypt"
    /\ pc' = "v_first"
    /\ UNCHANGED <<envVars, toolVars, diagVars, imVars, mountVars, events, printed, raised,
                   exitStatus, vUser, vPass, vPhrase, obs1, obs2>>

V_Foreign ==
    /\ pc = "v_start"
    /\ \E f \in ForeignPayloads(vUser, vPass) :
          /\ token' = urlsafe_b64encode(
                          FernetEncrypt(generate_encryption_key(vPhrase), f[2], 1, 1))
          /\ origin' = f[1]
    /\ pc' = "v_first"
    /\ UNCHANGED <<envVars, toolVars, diagVars, imVars, mountVars, events, printed, raised,
                   exitStatus, vUser, vPass, vPhrase, obs1, obs2>>

V_Tamper ==
    /\ pc \in {"v_first", "v_second"}
    /\ origin = "encrypt"
    /\ \E kind \in TamperKinds :
          /\ token' = Tamper(kind, token)
          /\ origin' = kind
    /\ UNCHANGED <<pc, envVars, toolVars, diagVars, imVars, mountVars, events, printed,
                   raised, exitStatus, vUser, vPass, vPhrase, obs1, obs2>>

V_Decrypt ==
    /\ pc \in {"v_first", "v_second"}
    /\ \E p2 \in Passphrases :
          LET o == [cause |-> CauseOf(origin, vPhrase, p2), phrase |-> p2,
                    out |-> decrypt_credentials(token, p2)]
          IN IF pc = "v_first"
             THEN obs1' = o /\ obs2' = obs2 /\ pc' = "v_second"
             ELSE obs2' = o /\ obs1' = obs1 /\ pc' = "v_done"
    /\ UNCHANGED <<envVars, toolVars, diagVars, imVars, mountVars, events, printed, raised,
                   exitStatus, vUser, vPass, vPhrase, token, origin>>

(***************************************************************************)
(* Specifications.                                                         *)
(***************************************************************************)
BlankTool == os_type = "None" /\ results = EmptyResults /\ encryption_key = "None"
BlankDiag == deps = "None" /\ diag = "None"
BlankIM ==
    /\ server = <<>> /\ share = <<>> /\ reach = "None" /\ listing = "None"
    /\ username = <<>> /\ password = <<>> /\ encryption_password = <<>>
    /\ encrypted_creds = NoneToken /\ mount_point = NoneText /\ imResult = "None"
BlankMount ==
    /\ success = "None" /\ used_drives = {} /\ drive_letter = 0 /\ dirs = {}
    /\ credFile = "none" /\ credContent = <<>> /\ pending = "None" /\ commands = {}
BlankRun == events = {} /\ printed = {} /\ raised = "None" /\ exitStatus = -1
BlankVault ==
    /\ vUser = <<>> /\ vPass = <<>> /\ vPhrase = <<>> /\ token = NoneToken
    /\ origin = "none" /\ obs1 = NoObs /\ obs2 = NoObs

\* The script is started: python Universal_SMB_Tool.py.
Init ==
    /\ pc = "import"
    /\ caller = "main"
    /\ platform \in Platforms
    /\ cryptoPresent \in BOOLEAN
    /\ mountArgs = NoArgs
    /\ BlankTool /\ BlankDiag /\ BlankIM /\ BlankMount /\ BlankRun /\ BlankVault

ProgramStep ==
    \/ ModuleImport \/ Construct \/ RunDiagnostics_Dependencies \/ RunDiagnostics_Tools
    \/ Main_AfterDiagnostics \/ Main_Banner
    \/ Main_ExceptKeyboardInterrupt \/ Main_ExceptException
    \/ IM_Server \/ IM_Share \/ IM_Reachability \/ IM_Listing \/ IM_Username
    \/ IM_Password \/ IM_Passphrase \/ IM_Encrypt \/ IM_MountPoint \/ IM_AfterMount
    \/ mount_smb_share \/ Win_Scan \/ Win_NetUse \/ Mac_Makedirs \/ Mac_Mount
    \/ Lin_Makedirs \/ Lin_WriteCredentials \/ Lin_Mount \/ Lin_Unlink

Next == ProgramStep \/ Interrupt

Spec == Init /\ [][Next]_vars

\* Every statement runs to completion or to its timeout, and the operator
\* answers each prompt (with a line, end of input or an interrupt).
FairSpec == Spec /\ WF_vars(ProgramStep)

\* mount_smb_share is called directly on a constructed tool.
ApiArgs == {<<sv, sh, u, p, mp>> : sv \in {<<"h">>}, sh \in {<<"d">>, <<"e">>},
                                   u \in {<<>>, <<"a">>, <<"U+00E9">>},
                                   p \in {<<>>, <<"p">>},
                                   mp \in {NoneText, <<>>, <<"/", "m">>}}

InitMount ==
    /\ pc = "mount_smb_share"
    /\ caller = "api"
    /\ platform \in Platforms
    /\ cryptoPresent = TRUE
    /\ os_type = platform /\ results = EmptyResults /\ encryption_key = "None"
    /\ mountArgs \in ApiArgs
    /\ BlankDiag /\ BlankIM /\ BlankMount /\ BlankRun /\ BlankVault

NextMount ==
    \/ mount_smb_share \/ Win_Scan \/ Win_NetUse \/ Mac_Makedirs \/ Mac_Mount
    \/ Lin_Makedirs \/ Lin_WriteCredentials \/ Lin_Mount \/ Lin_Unlink
    \/ Interrupt

SpecMount == InitMount /\ [][NextMount]_vars

\* encrypt_credentials and decrypt_credentials are called directly.
InitVault ==
    /\ pc = "v_start"
    /\ caller = "api"
    /\ platform \in {"linux"}
    /\ cryptoPresent = TRUE
    /\ os_type = platform /\ results = EmptyResults /\ encryption_key = "None"
    /\ mountArgs = NoArgs
    /\ BlankDiag /\ BlankIM /\ BlankMount /\ BlankRun
    /\ vUser \in Usernames /\ vPass \in Passwords /\ vPhrase \in Passphrases
    /\ token = NoneToken /\ origin = "none" /\ obs1 = NoObs /\ obs2 = NoObs

NextVault == V_Encrypt \/ V_Foreign \/ V_Tamper \/ V_Decrypt

SpecVault == InitVault /\ [][NextVault]_vars

(***************************************************************************)
(* Properties.                                                             *)
(***************************************************************************)
\* Whether self.results records an active SMB service or tool of the platform.
ToolsReported(res) ==
    \/ "windows_services" \in DOMAIN res
          /\ \E i \in 1..2 : res["windows_services"][i] = "Running"
    \/ "macos_smb" \in DOMAIN res /\ res["macos_smb"][2] = "True"
    \/ "linux_smb" \in DOMAIN res /\ res["linux_smb"] # <<>>

MappingEvents == {"map_prompt", "server_prompt", "reachability", "listing",
                  "cred_prompt", "encrypt", "mount"}

\* C1: once the capability check has run and failed (the cryptography library
\* is absent, or check_smb_tools reported no active service or tool),
\* run_diagnostics has returned False and neither the "map a share now?"
\* prompt, the reachability check, the share listing, the credential prompts
\* nor the mount invocation ever occurs.
C1_CapabilityFailureShortCircuits ==
    ("capability_check" \in events /\ (~cryptoPresent \/ ~ToolsReported(results)))
        => (diag = "False" /\ events \cap MappingEvents = {})

C1_Witness ==
    /\ pc = "exited" /\ exitStatus = 0
    /\ "capability_check" \in events /\ ~ToolsReported(results)
    /\ os_type = "linux" /\ diag = "False"
    /\ "critical_dependencies_missing" \in printed

\* C2: when test_network_connectivity returned False, interactive_mapping
\* returns False, and no share listing, credential prompt, encrypt call or
\* mount invocation happens in that run.
C2_UnreachableIsFatal ==
    reach = "False"
        => (imResult = "False"
            /\ events \cap {"listing", "cred_prompt", "encrypt", "mount"} = {}
            /\ encrypted_creds = NoneToken /\ mountArgs = NoArgs)

C2_Witness ==
    /\ reach = "False" /\ pc = "exited" /\ exitStatus = 0
    /\ "cannot_reach_server" \in printed /\ "reachability" \in events

\* C3: a failed share listing is never fatal.  When the reachability check
\* succeeded and test_smb_connection returned False, interactive_mapping
\* returns only what mount_smb_share returned, or False because the
\* credentials could not be encrypted; and the run goes on to the credential
\* prompt and then to the mount invocation, unless encryption fails or an
\* exception (end of input, an interrupt) leaves the workflow.
C3_ListingFailureNotFatal ==
    /\ [](listing = "False" =>
            /\ reach = "True"
            /\ \/ imResult = "None"
               \/ "failed_to_encrypt" \in printed
               \/ "mount" \in events /\ "cred_prompt" \in events /\ imResult = success)
    /\ (listing = "False") ~> \/ "mount" \in events /\ "cred_prompt" \in events
                              \/ "failed_to_encrypt" \in printed
                              \/ raised # "None"

C3_Witness ==
    /\ listing = "False" /\ reach = "True"
    /\ "smb_test_failed_proceeding" \in printed
    /\ "mount" \in events /\ imResult = "True" /\ pc = "exited"

\* C4: in every state in which mount_linux_smb has returned or propagated
\* out, no credentials file created by that call still exists.
C4_CredentialsFileRemoved ==
    (os_type = "linux" /\ pc = "api_done") => credFile # "exists"

Observations == {obs1, obs2}

\* C5: decrypting what encrypt_credentials returned, with the passphrase it
\* was encrypted with, returns exactly the username and the password that
\* were encrypted, whatever IV and timestamp the encryption drew.
C5_RoundTrip ==
    \A o \in Observations : o.cause = "valid" => o.out = Returned(vUser, vPass)

C5_Witness ==
    /\ obs1.cause = "valid" /\ obs1.out.ret = <<vUser, vPass>>
    /\ vUser = <<QUOTE, "U+00E9">> /\ vPass = <<BSLASH, QUOTE>> /\ vPhrase = <<"U+00E9">>

\* C6: for every input that is not a valid token under the passphrase given,
\* decrypt_credentials returns (None, None) and lets no exception escape.
C6_InvalidTokenRejected ==
    \A o \in Observations :
        o.cause \notin {"none", "valid"}
            => (o.out.ret = <<NoneText, NoneText>> /\ o.out.escaped = "None")

MalformedCauses == TamperKinds \cup {"no_password", "no_username", "no_fields",
                                     "not_an_object", "not_json", "not_utf8"}

Failed(o) == o.out.ret = <<NoneText, NoneText>>

\* C7: a decrypt call that failed because of a wrong passphrase and one that
\* failed because of corrupted or malformed data show the operator the same
\* returned value and the same printed message.
C7_UniformFailures ==
    (obs1.cause = "wrong_passphrase" /\ obs2.cause \in MalformedCauses
        /\ Failed(obs1) /\ Failed(obs2))
        => obs1.out = obs2.out

\* C8: on a platform other than windows, darwin and linux, mount_smb_share
\* issues no external command, creates no mount point directory and no
\* credentials file, and returns False.
C8_UnsupportedPlatformMount ==
    os_type \notin Supported
        => (/\ commands = {} /\ dirs = {} /\ credFile = "none"
            /\ pc \in {"mount_smb_share", "api_done"}
            /\ (pc = "api_done" /\ raised = "None") => success = "False")

C8_Witness ==
    /\ os_type = "freebsd" /\ pc = "api_done" /\ "mount" \in events
    /\ success = "False" /\ mountArgs[3] = <<"a">> /\ mountArgs[5] = <<"/", "m">>

\* C9: the process ends with a non-zero exit status only when an unexpected
\* exception has reached the top level of main (the handler of lines 590-592).
C9_NonZeroExitOnlyFromMain ==
    (pc = "exited" /\ exitStatus # 0)
        => (raised \notin {"None", "KeyboardInterrupt"} /\ "unexpected_error" \in printed)

NetUseCommands == {c \in commands : c[1] = "net" /\ c[2] = "use"}

\* C10: mount_windows_smb maps the share to the highest letter whose root
\* path does not exist; no net use command carries a letter in use; with all
\* 26 letters in use it returns False and issues no net use command.
C10_WindowsDriveLetter ==
    os_type = "windows" =>
        /\ drive_letter # 0 =>
              /\ drive_letter \in Letters \ used_drives
              /\ \A d \in Letters : d > drive_letter => d \in used_drives
        /\ \A c \in NetUseCommands : c[3] = drive_letter /\ c[3] \notin used_drives
        /\ pc = "win_net_use" => used_drives # Letters
        /\ (used_drives = Letters /\ Cardinality(used_drives) = NumLetters) =>
              /\ NetUseCommands = {}
              /\ pc \notin {"mount_windows_smb", "win_net_use"}
              /\ (pc = "api_done" /\ raised = "None") => success = "False"
        /\ "no_available_drive_letters" \in printed => used_drives = Letters

C10_Witness ==
    /\ os_type = "windows" /\ pc = "api_done" /\ success = "True"
    /\ drive_letter = NumLetters - 1 /\ used_drives = {3, NumLetters}
    /\ NetUseCommands # {}

C10_WitnessAllInUse ==
    /\ os_type = "windows" /\ pc = "api_done" /\ success = "False"
    /\ used_drives = Letters /\ commands = {}

\* What the operator entered, as interactive_mapping holds it.
EnteredArgs == <<server, share, username, password, mount_point>>

MountCommandsAsEntered ==
    /\ \A c \in NetUseCommands : c = NetUseCommand(drive_letter, EnteredArgs)
    /\ \A c \in {d \in commands : d[1] = "mount"} :
          c = <<"mount", "-t", "smbfs", SmbUrl(EnteredArgs),
                MountPointOr(mount_point, "/Volumes/", share)>>
    /\ \A c \in {d \in commands : d[1] = "sudo"} :
          c = <<"sudo", "mount", "-t", "cifs", <<server, share>>,
                MountPointOr(mount_point, "/mnt/", share)>>

\* C11: the encrypted token is informational only.  Whenever
\* interactive_mapping has reached the mount invocation, mount_smb_share was
\* called with the username and the password the operator entered, the mount
\* commands and the credentials file are built from them and from nothing
\* else; and the encrypt step leaves results, encryption_key and the disk
\* (directories, credentials file) as they were.
C11_TokenInformationalOnly ==
    /\ [](Len(mountArgs) = 5 =>
            /\ mountArgs = EnteredArgs
            /\ username \in {Strip(l) : l \in UsernameLines}
            /\ password \in PasswordLines
            /\ credContent \in {<<>>, <<username, password>>}
            /\ MountCommandsAsEntered)
    /\ [](encryption_key = "None")
    /\ [][pc = "im_encrypt" =>
            /\ results' = results /\ encryption_key' = encryption_key
            /\ credFile' = credFile /\ credContent' = credContent
            /\ dirs' = dirs /\ commands' = commands]_vars

C11_Witness ==
    /\ "mount" \in events /\ Truthy(encrypted_creds) /\ pc = "exited"
    /\ username = <<"a">> /\ password = <<"p">> /\ encryption_password = <<"k">>
    /\ mountArgs[3] = <<"a">> /\ mountArgs[4] = <<"p">>
    /\ os_type = "linux" /\ credContent = <<username, password>> /\ imResult = "True"

\* C12: the credential step gates the mount only when a username is given.
\* With a non-empty username, when encrypt_credentials returned no token,
\* interactive_mapping returns False and the mount is never invoked.  With an
\* empty username encrypt_credentials is not called at all, and the run goes
\* on to the mount invocation, made with an empty username and an empty
\* password, unless an exception (end of input, an interrupt) leaves the
\* workflow at the mount point prompt.
C12_CredentialGate ==
    /\ []("encrypt" \in events => username # <<>>)
    /\ []( ("encrypt" \in events /\ encrypted_creds = NoneToken) =>
             /\ imResult = "False"
             /\ "mount" \notin events /\ mountArgs = NoArgs
             /\ pc \notin MountPcs \cup {"im_mount_point", "im_after_mount"} )
    /\ []( ("cred_prompt" \in events /\ username = <<>>) =>
             /\ "encrypt" \notin events /\ encrypted_creds = NoneToken
             /\ Len(mountArgs) = 5 => (mountArgs[3] = <<>> /\ mountArgs[4] = <<>>) )
    /\ (pc = "im_mount_point" /\ username = <<>>)
          ~> (("mount" \in events /\ mountArgs[3] = <<>> /\ mountArgs[4] = <<>>)
              \/ raised # "None")

C12_Witness ==
    /\ "encrypt" \in events /\ encrypted_creds = NoneToken
    /\ username = <<"a">> /\ "failed_to_encrypt" \in printed
    /\ imResult = "False" /\ "mount" \notin events /\ pc = "exited" /\ exitStatus = 0

C12_WitnessAnonymous ==
    /\ "cred_prompt" \in events /\ username = <<>> /\ "encrypt" \notin events
    /\ "mount" \in events /\ mountArgs[3] = <<>> /\ mountArgs[4] = <<>>
    /\ imResult = "True" /\ pc = "exited"

====
